---- MODULE Spec2Model ----
(***************************************************************************)
(* The Redis worker of golang-queue/redis (redis.go): the lifecycle gate   *)
(* (Shutdown, Queue, Run and the constant hooks) and the job supervisor    *)
(* handle, which runs one job's handler in its own goroutine under a       *)
(* deadline and races it against the worker's stop channel.                *)
(*                                                                         *)
(* Time is a discrete clock, now.  A goroutine blocked in a select is      *)
(* woken by the first event on one of its channels (a send, a close, a     *)
(* timer firing), as the Go runtime does; a select that finds several      *)
(* cases ready on entry picks one of them arbitrarily.  The supervisor's   *)
(* own steps take no time: the clock advances only while every handle is   *)
(* idle, blocked in a select, or returned.                                 *)
(***************************************************************************)
EXTENDS Integers, Sequences, FiniteSets

\* ---- bounds of the model ------------------------------------------------
NJobs == 1
NShutdown == 2
MaxTimeout == 2
MaxTime == 3

Jobs == 1..NJobs
\* the handle invocations that can be in flight together with one more caller
Handles == 1..(NJobs + 1)
ShutdownCallers == 1..NShutdown
Timeouts == 0..MaxTimeout

\* ---- values -------------------------------------------------------------
Nil == "nil"
ErrQueueShutdown == "ErrQueueShutdown"
DeadlineExceeded == "DeadlineExceeded"
Canceled == "Canceled"

\* what the handler (runFunc) may return, and the values it may panic with
HandlerErrors == {Nil, "err1"}
PanicValues == {"p1"}

\* what a call of the worker's interface returns: an error (nil included) or an int
NoResult == [none |-> TRUE]
ErrorResult(e) == [error |-> e]
IntResult(n) == [int |-> n]

None == [kind |-> "none", val |-> "none"]
Returned(e) == [kind |-> "return", val |-> e]
Panicked(p) == [kind |-> "panic", val |-> p]

VARIABLES
    stopFlag,       \* Worker.stopFlag (int32)
    stop,           \* Worker.stop: "open" or "closed"
    stopOnce,       \* Worker.stopOnce: "fresh", "running" or "done"
    rdbCloseCalls,  \* how many times Worker.rdb.Close() was called
    stopCloseCalls, \* how many times close(s.stop) was executed
    spc,            \* each Shutdown call's position
    sres,           \* each Shutdown call's return value
    ret,            \* the value the last call of Queue, Run, BeforeRun, AfterRun, Capacity or Usage returned
    now,            \* the clock
    hpc,            \* each handle invocation's position
    timeout,        \* job.Timeout
    startTime,      \* startTime of handle
    ctxErr,         \* ctx.Err(): Nil while ctx.Done() is open
    done,           \* the done channel's buffer
    panicChan,      \* the panicChan channel's buffer
    sel,            \* the case a select resolved to, with the value received
    timerAt,        \* when time.After(leftTime) fires
    outcome,        \* what handle gave its caller
    retElapsed,     \* time.Since(startTime) when handle returned
    gpc,            \* the handler goroutine's position
    hres,           \* what runFunc did: returned a value or panicked
    hInTime,        \* whether runFunc ended before job.Timeout had elapsed
    shutIn,         \* whether the stop channel was closed while the job was in flight before its deadline
    nSent,          \* messages the goroutine sent on done and panicChan
    nOutcome        \* outcomes handle reported

gateVars == <<stopFlag, stop, stopOnce, rdbCloseCalls, stopCloseCalls>>
shutVars == <<spc, sres>>
jobVars == <<hpc, timeout, startTime, ctxErr, done, panicChan, sel, timerAt,
             outcome, retElapsed, gpc, hres, hInTime, shutIn, nSent, nOutcome>>
vars == <<gateVars, shutVars, ret, now, jobVars>>

\* ---- NewWorker ------------------------------------------------------------
Init ==
    /\ stopFlag = 0
    /\ stop = "open"
    /\ stopOnce = "fresh"
    /\ rdbCloseCalls = 0
    /\ stopCloseCalls = 0
    /\ spc = [p \in ShutdownCallers |-> "idle"]
    /\ sres = [p \in ShutdownCallers |-> "none"]
    /\ ret = NoResult
    /\ now = 0
    /\ hpc = [j \in Handles |-> "idle"]
    /\ timeout = [j \in Handles |-> 0]
    /\ startTime = [j \in Handles |-> 0]
    /\ ctxErr = [j \in Handles |-> Nil]
    /\ done = [j \in Handles |-> <<>>]
    /\ panicChan = [j \in Handles |-> <<>>]
    /\ sel = [j \in Handles |-> None]
    /\ timerAt = [j \in Handles |-> 0]
    /\ outcome = [j \in Handles |-> None]
    /\ retElapsed = [j \in Handles |-> 0]
    /\ gpc = [j \in Handles |-> "none"]
    /\ hres = [j \in Handles |-> None]
    /\ hInTime = [j \in Handles |-> FALSE]
    /\ shutIn = [j \in Handles |-> FALSE]
    /\ nSent = [j \in Handles |-> 0]
    /\ nOutcome = [j \in Handles |-> 0]

\* ---- select: waking a blocked goroutine -----------------------------------
\* handle j is blocked in its outer select (redis.go:171), or in the select of
\* its shutdown branch (redis.go:182)
BlockedOuter(j) == hpc[j] = "outerWait"
BlockedInner(j) == hpc[j] = "innerWait"

\* the position a blocked handle moves to when one of its cases fires
Woken(pc) == IF pc = "outerWait" THEN "outerGo" ELSE "innerGo"

\* ---- sync/atomic ----------------------------------------------------------
\* a CompareAndSwap that writes the old value back when it fails
CompareAndSwapToggle(cur, old, new) ==
    [swapped |-> cur = old, val |-> IF cur = old THEN new ELSE old]

\* a compare and swap that reports success and stores nothing
CompareAndSwapNoStore(cur, old, new) ==
    [swapped |-> cur = old, val |-> cur]

\* a plain store in place of the compare and swap
CompareAndSwapStore(cur, old, new) ==
    [swapped |-> TRUE, val |-> new]

\* atomic.CompareAndSwapInt32(&s.stopFlag, old, new): whether it swapped, and
\* the value the flag holds afterwards
CompareAndSwapInt32(cur, old, new) ==
    [swapped |-> cur = old, val |-> IF cur = old THEN new ELSE cur]

\* ---- Shutdown (redis.go:196) ----------------------------------------------
\* if !atomic.CompareAndSwapInt32(&s.stopFlag, 0, 1) { return queue.ErrQueueShutdown }
\* (the calls are numbered in the order of their compare-and-swap)
ShutdownCAS(p) ==
    /\ spc[p] = "idle"
    /\ \A q \in 1..(p - 1) : spc[q] # "idle"
    /\ LET r == CompareAndSwapInt32(stopFlag, 0, 1) IN
        /\ stopFlag' = r.val
        /\ IF r.swapped
             THEN /\ spc' = [spc EXCEPT ![p] = "once"]
                  /\ sres' = sres
             ELSE /\ spc' = [spc EXCEPT ![p] = "returned"]
                  /\ sres' = [sres EXCEPT ![p] = ErrQueueShutdown]
    /\ UNCHANGED <<stop, stopOnce, rdbCloseCalls, stopCloseCalls, ret, now, jobVars>>

\* s.stopOnce.Do(func() { s.rdb.Close() ...: Do runs the function the first
\* time only and makes a concurrent caller wait for it; after it has run, Do
\* returns at once and Shutdown returns nil
ShutdownOnceDo(p) ==
    /\ spc[p] = "once"
    /\ stopOnce # "running"
    /\ IF stopOnce = "fresh"
         THEN /\ stopOnce' = "running"
              /\ rdbCloseCalls' = rdbCloseCalls + 1
              /\ spc' = [spc EXCEPT ![p] = "closeStop"]
              /\ sres' = sres
         ELSE /\ spc' = [spc EXCEPT ![p] = "returned"]
              /\ sres' = [sres EXCEPT ![p] = Nil]
              /\ UNCHANGED <<stopOnce, rdbCloseCalls>>
    /\ UNCHANGED <<stopFlag, stop, stopCloseCalls, ret, now, jobVars>>

\* the jobs in flight before their deadline
InFlight(j) == hpc[j] \notin {"idle", "returned"} /\ now - startTime[j] < timeout[j]

\* a teardown that closes the client and leaves the stop channel open
ShutdownCloseStopForgotten(p) ==
    /\ spc[p] = "closeStop"
    /\ stopOnce' = "done"
    /\ spc' = [spc EXCEPT ![p] = "returned"]
    /\ sres' = [sres EXCEPT ![p] = Nil]
    /\ UNCHANGED <<stopFlag, stop, rdbCloseCalls, stopCloseCalls, ret, now, jobVars>>

\* a stop signal that is handed to one waiter only, as a send on the channel
\* would be
ShutdownCloseWakesOne(p) ==
    /\ spc[p] = "closeStop"
    /\ stop' = "closed"
    /\ stopCloseCalls' = stopCloseCalls + 1
    /\ stopOnce' = "done"
    /\ spc' = [spc EXCEPT ![p] = "returned"]
    /\ sres' = [sres EXCEPT ![p] = Nil]
    /\ LET first(j) == BlockedOuter(j) /\ \A i \in 1..(j - 1) : ~BlockedOuter(i) IN
        /\ hpc' = [j \in Handles |-> IF first(j) THEN Woken(hpc[j]) ELSE hpc[j]]
        /\ sel' = [j \in Handles |->
               IF first(j) THEN [kind |-> "stop", val |-> "none"] ELSE sel[j]]
    /\ shutIn' = [j \in Handles |-> shutIn[j] \/ InFlight(j)]
    /\ UNCHANGED <<stopFlag, rdbCloseCalls, ret, now, timeout, startTime,
                   ctxErr, done, panicChan, timerAt, outcome, retElapsed, gpc,
                   hres, hInTime, nSent, nOutcome>>

\* ... close(s.stop) }); return nil: every handle blocked in a select on s.stop
\* is woken with that case
ShutdownCloseStop(p) ==
    /\ spc[p] = "closeStop"
    /\ stop' = "closed"
    /\ stopCloseCalls' = stopCloseCalls + 1
    /\ stopOnce' = "done"
    /\ spc' = [spc EXCEPT ![p] = "returned"]
    /\ sres' = [sres EXCEPT ![p] = Nil]
    /\ hpc' = [j \in Handles |-> IF BlockedOuter(j) THEN Woken(hpc[j]) ELSE hpc[j]]
    /\ sel' = [j \in Handles |->
           IF BlockedOuter(j) THEN [kind |-> "stop", val |-> "none"] ELSE sel[j]]
    /\ shutIn' = [j \in Handles |-> shutIn[j] \/ InFlight(j)]
    /\ UNCHANGED <<stopFlag, rdbCloseCalls, ret, now, timeout, startTime,
                   ctxErr, done, panicChan, timerAt, outcome, retElapsed, gpc,
                   hres, hInTime, nSent, nOutcome>>

\* ---- Queue (redis.go:219) -------------------------------------------------
\* a Queue that never looks at the flag
QueueResultAccept(flag) == Nil

\* a Queue that tests the flag the wrong way round
QueueResultInverted(flag) == IF flag = 1 THEN Nil ELSE ErrQueueShutdown

\* if atomic.LoadInt32(&s.stopFlag) == 1 { return queue.ErrQueueShutdown }; return nil
QueueResult(flag) == IF flag = 1 THEN ErrQueueShutdown ELSE Nil

Queue ==
    /\ ret' = ErrorResult(QueueResult(stopFlag))
    /\ UNCHANGED <<gateVars, shutVars, now, jobVars>>

\* ---- Run (redis.go:228) ---------------------------------------------------
\* a Run with its two results exchanged
RunResultInverted(ch) == IF ch = "closed" THEN Nil ELSE ErrQueueShutdown

\* select { case <-s.stop: return queue.ErrQueueShutdown; default: }; return nil
RunResult(ch) == IF ch = "closed" THEN ErrQueueShutdown ELSE Nil

Run ==
    /\ ret' = ErrorResult(RunResult(stop))
    /\ UNCHANGED <<gateVars, shutVars, now, jobVars>>

\* ---- BeforeRun, AfterRun, Capacity, Usage (redis.go:141, 146, 209, 214) ---
\* return nil, return nil, return 0, return 0
BeforeRun ==
    /\ ret' = ErrorResult(Nil)
    /\ UNCHANGED <<gateVars, shutVars, now, jobVars>>

AfterRun ==
    /\ ret' = ErrorResult(Nil)
    /\ UNCHANGED <<gateVars, shutVars, now, jobVars>>

Capacity ==
    /\ ret' = IntResult(0)
    /\ UNCHANGED <<gateVars, shutVars, now, jobVars>>

Usage ==
    /\ ret' = IntResult(0)
    /\ UNCHANGED <<gateVars, shutVars, now, jobVars>>

\* ---- handle (redis.go:150) ------------------------------------------------
\* context.WithTimeout(context.Background(), d): a deadline that has already
\* passed gives a context that is done from the start
WithTimeoutErr(d) == IF d <= 0 THEN DeadlineExceeded ELSE Nil

\* a cancel() left out
CancelNoop(err) == err

\* cancel(): the first cancellation or expiry fixes ctx.Err()
Cancel(err) == IF err = Nil THEN Canceled ELSE err

\* done, panicChan := make(chan, 1); startTime := time.Now();
\* ctx, cancel := context.WithTimeout(context.Background(), job.Timeout); go func() {...}()
\* (the invocations are numbered in the order they start)
HandleStart(j, T) ==
    /\ hpc[j] = "idle"
    /\ \A i \in 1..(j - 1) : hpc[i] # "idle"
    /\ now + T <= MaxTime
    /\ hpc' = [hpc EXCEPT ![j] = "outer"]
    /\ timeout' = [timeout EXCEPT ![j] = T]
    /\ startTime' = [startTime EXCEPT ![j] = now]
    /\ ctxErr' = [ctxErr EXCEPT ![j] = WithTimeoutErr(T)]
    /\ gpc' = [gpc EXCEPT ![j] = "running"]
    /\ UNCHANGED <<gateVars, shutVars, ret, now, done, panicChan, sel, timerAt,
                   outcome, retElapsed, hres, hInTime, shutIn, nSent, nOutcome>>

\* ---- the handler goroutine (redis.go:159) ---------------------------------
\* a recover that forwards whatever it got, nil included
PanicMsgsUnguarded(r) == <<IF r.kind = "panic" THEN r.val ELSE Nil>>

\* done <- s.runFunc(ctx, job): sent when runFunc returns
DoneMsgs(r) == IF r.kind = "return" THEN <<r.val>> ELSE <<>>

\* defer func() { if p := recover(); p != nil { panicChan <- p } }()
PanicMsgs(r) == IF r.kind = "panic" THEN <<r.val>> ELSE <<>>

\* the case a handle blocked on both channels is woken with: the first message sent
FirstMsg(r) ==
    IF DoneMsgs(r) # <<>> THEN [kind |-> "done", val |-> Head(DoneMsgs(r))]
    ELSE [kind |-> "panic", val |-> Head(PanicMsgs(r))]

\* a channel made without a buffer: a send completes only into a waiting receiver
SendReadyUnbuffered(buf, msgs, receiving) == msgs = <<>> \/ receiving

\* make(chan error, 1), make(chan interface{}, 1): a send completes when a
\* receiver is waiting in a select or the buffer has room
SendReady(buf, msgs, receiving) == receiving \/ Len(buf) + Len(msgs) <= 1

\* runFunc ends with r (it returns a value or panics) and the goroutine sends
\* its message: straight to a handle blocked in a select, else into the buffer
HandlerEnd(j, r) ==
    /\ gpc[j] = "running"
    /\ gpc' = [gpc EXCEPT ![j] = "exited"]
    /\ hres' = [hres EXCEPT ![j] = r]
    /\ hInTime' = [hInTime EXCEPT ![j] = now - startTime[j] < timeout[j]]
    /\ nSent' = [nSent EXCEPT ![j] = @ + Len(DoneMsgs(r)) + Len(PanicMsgs(r))]
    /\ SendReady(done[j], DoneMsgs(r), BlockedOuter(j) \/ BlockedInner(j))
    /\ SendReady(panicChan[j], PanicMsgs(r), BlockedOuter(j) \/ BlockedInner(j))
    /\ IF BlockedOuter(j) \/ BlockedInner(j)
         THEN /\ hpc' = [hpc EXCEPT ![j] = Woken(hpc[j])]
              /\ sel' = [sel EXCEPT ![j] = FirstMsg(r)]
              /\ done' = done
              /\ panicChan' = [panicChan EXCEPT ![j] =
                     IF DoneMsgs(r) # <<>> THEN @ \o PanicMsgs(r) ELSE @]
         ELSE /\ done' = [done EXCEPT ![j] = @ \o DoneMsgs(r)]
              /\ panicChan' = [panicChan EXCEPT ![j] = @ \o PanicMsgs(r)]
              /\ UNCHANGED <<hpc, sel>>
    /\ UNCHANGED <<gateVars, shutVars, ret, now, timeout, startTime, ctxErr,
                   timerAt, outcome, retElapsed, shutIn, nOutcome>>

HandlerReturn(j) == \E e \in HandlerErrors : HandlerEnd(j, Returned(e))

HandlerPanic(j) == \E p \in PanicValues : HandlerEnd(j, Panicked(p))

\* ---- the outer select (redis.go:171) --------------------------------------
\* the cases ready when the select is entered
OuterReady(j) ==
    {c \in {"panic", "ctx", "stop", "done"} :
        \/ c = "panic" /\ panicChan[j] # <<>>
        \/ c = "ctx" /\ ctxErr[j] # Nil
        \/ c = "stop" /\ stop = "closed"
        \/ c = "done" /\ done[j] # <<>>}

\* the value a case receives from its channel's buffer
Received(j, c) ==
    [kind |-> c,
     val |-> IF c = "done" THEN Head(done[j])
             ELSE IF c = "panic" THEN Head(panicChan[j]) ELSE "none"]

\* the receive of case c takes its value out of the buffer
Consume(j, c) ==
    /\ done' = [done EXCEPT ![j] = IF c = "done" THEN Tail(@) ELSE @]
    /\ panicChan' = [panicChan EXCEPT ![j] = IF c = "panic" THEN Tail(@) ELSE @]

\* a supervisor that reports every handler result as success
OuterOutcomeNil(s, err) ==
    IF s.kind = "panic" THEN Panicked(s.val)
    ELSE IF s.kind = "ctx" THEN Returned(err)
    ELSE Returned(Nil)

\* a supervisor that reports the deadline as success
OuterOutcomeNoDeadline(s, err) ==
    IF s.kind = "panic" THEN Panicked(s.val)
    ELSE IF s.kind = "ctx" THEN Returned(Nil)
    ELSE Returned(s.val)

\* case p := <-panicChan: panic(p); case <-ctx.Done(): return ctx.Err();
\* case err := <-done: return err
OuterOutcome(s, err) ==
    IF s.kind = "panic" THEN Panicked(s.val)
    ELSE IF s.kind = "ctx" THEN Returned(err)
    ELSE Returned(s.val)

\* a grace wait of a fresh job.Timeout
LeftTimeFresh(T, start, t) == T

\* leftTime := job.Timeout - time.Since(startTime)
LeftTime(T, start, t) == T - (t - start)

\* a cancel that belongs to the worker and not to the call: returning cancels
\* the context of every job in flight
HandleReturnCancelsAll(j, o) ==
    /\ hpc' = [hpc EXCEPT ![j] = "returned"]
    /\ outcome' = [outcome EXCEPT ![j] = o]
    /\ nOutcome' = [nOutcome EXCEPT ![j] = @ + 1]
    /\ retElapsed' = [retElapsed EXCEPT ![j] = now - startTime[j]]
    /\ ctxErr' = [i \in Handles |->
           IF i = j \/ hpc[i] # "idle" THEN Cancel(ctxErr[i]) ELSE ctxErr[i]]
    /\ sel' = [sel EXCEPT ![j] = None]
    /\ timerAt' = [timerAt EXCEPT ![j] = 0]

\* handle returns o (or panics with it); the deferred cancel() runs, and the
\* locals of the selects go out of scope
HandleReturn(j, o) ==
    /\ hpc' = [hpc EXCEPT ![j] = "returned"]
    /\ outcome' = [outcome EXCEPT ![j] = o]
    /\ nOutcome' = [nOutcome EXCEPT ![j] = @ + 1]
    /\ retElapsed' = [retElapsed EXCEPT ![j] = now - startTime[j]]
    /\ ctxErr' = [ctxErr EXCEPT ![j] = Cancel(@)]
    /\ sel' = [sel EXCEPT ![j] = None]
    /\ timerAt' = [timerAt EXCEPT ![j] = 0]

\* the branch of the outer select for the case s; case <-s.stop: cancel(),
\* leftTime, and on to the inner select with time.After(leftTime) started
OuterTake(j, s) ==
    IF s.kind = "stop"
      THEN /\ hpc' = [hpc EXCEPT ![j] = "inner"]
           /\ ctxErr' = [ctxErr EXCEPT ![j] = Cancel(@)]
           /\ timerAt' = [timerAt EXCEPT ![j] =
                  now + LeftTime(timeout[j], startTime[j], now)]
           /\ sel' = [sel EXCEPT ![j] = None]
           /\ UNCHANGED <<outcome, nOutcome, retElapsed>>
      ELSE HandleReturn(j, OuterOutcome(s, ctxErr[j]))

\* the select is entered: a ready case is taken at once, or the goroutine blocks
EnterOuter(j) ==
    /\ hpc[j] = "outer"
    /\ IF OuterReady(j) = {}
         THEN /\ hpc' = [hpc EXCEPT ![j] = "outerWait"]
              /\ UNCHANGED <<done, panicChan, ctxErr, timerAt, sel, outcome,
                             nOutcome, retElapsed>>
         ELSE \E c \in OuterReady(j) :
              /\ Consume(j, c)
              /\ OuterTake(j, Received(j, c))
    /\ UNCHANGED <<gateVars, shutVars, ret, now, timeout, startTime, gpc, hres,
                   hInTime, shutIn, nSent>>

\* the goroutine, woken with the case sel[j], takes its branch
OuterBranch(j) ==
    /\ hpc[j] = "outerGo"
    /\ OuterTake(j, sel[j])
    /\ UNCHANGED <<gateVars, shutVars, ret, now, timeout, startTime, done,
                   panicChan, gpc, hres, hInTime, shutIn, nSent>>

\* ---- the inner select (redis.go:182) --------------------------------------
InnerReady(j) ==
    {c \in {"timer", "done", "panic"} :
        \/ c = "timer" /\ now >= timerAt[j]
        \/ c = "done" /\ done[j] # <<>>
        \/ c = "panic" /\ panicChan[j] # <<>>}

\* a shutdown branch that reports the expired wait as success
InnerOutcomeTimerNil(s) ==
    IF s.kind = "timer" THEN Returned(Nil)
    ELSE IF s.kind = "done" THEN Returned(s.val)
    ELSE Panicked(s.val)

\* a shutdown branch that reports every job as abandoned
InnerOutcomeDropsResult(s) ==
    IF s.kind = "panic" THEN Panicked(s.val)
    ELSE Returned(DeadlineExceeded)

\* case <-time.After(leftTime): return context.DeadlineExceeded;
\* case err := <-done: return err; case p := <-panicChan: panic(p)
InnerOutcome(s) ==
    IF s.kind = "timer" THEN Returned(DeadlineExceeded)
    ELSE IF s.kind = "done" THEN Returned(s.val)
    ELSE Panicked(s.val)

EnterInner(j) ==
    /\ hpc[j] = "inner"
    /\ IF InnerReady(j) = {}
         THEN /\ hpc' = [hpc EXCEPT ![j] = "innerWait"]
              /\ UNCHANGED <<done, panicChan, ctxErr, timerAt, sel, outcome,
                             nOutcome, retElapsed>>
         ELSE \E c \in InnerReady(j) :
              /\ Consume(j, c)
              /\ HandleReturn(j, InnerOutcome(Received(j, c)))
    /\ UNCHANGED <<gateVars, shutVars, ret, now, timeout, startTime, gpc, hres,
                   hInTime, shutIn, nSent>>

InnerBranch(j) ==
    /\ hpc[j] = "innerGo"
    /\ HandleReturn(j, InnerOutcome(sel[j]))
    /\ UNCHANGED <<gateVars, shutVars, ret, now, timeout, startTime, done,
                   panicChan, gpc, hres, hInTime, shutIn, nSent>>

\* ---- the clock ------------------------------------------------------------
\* the context's deadline timer of job j fires when the clock reaches t
DeadlineFires(j, t) ==
    hpc[j] # "idle" /\ ctxErr[j] = Nil /\ t - startTime[j] >= timeout[j]

\* a shutdown branch that waits for the handler alone
GraceFiresNever(j, t) == FALSE

\* the time.After timer of job j's shutdown branch fires when the clock reaches t
GraceFires(j, t) == BlockedInner(j) /\ t >= timerAt[j]

\* time passes while no handle has a step of its own to take; the timers that
\* come due fire, each waking the handle blocked on it.  Nothing but a handle
\* in flight reads the clock, so it is advanced only while one is blocked.
Tick ==
    /\ now < MaxTime
    /\ \A j \in Handles : hpc[j] \in {"idle", "outerWait", "innerWait", "returned"}
    /\ \E j \in Handles : BlockedOuter(j) \/ BlockedInner(j)
    /\ now' = now + 1
    /\ ctxErr' = [j \in Handles |->
           IF DeadlineFires(j, now + 1) THEN DeadlineExceeded ELSE ctxErr[j]]
    /\ hpc' = [j \in Handles |->
           IF (BlockedOuter(j) /\ DeadlineFires(j, now + 1)) \/ GraceFires(j, now + 1)
             THEN Woken(hpc[j]) ELSE hpc[j]]
    /\ sel' = [j \in Handles |->
           IF BlockedOuter(j) /\ DeadlineFires(j, now + 1)
             THEN [kind |-> "ctx", val |-> "none"]
           ELSE IF GraceFires(j, now + 1)
             THEN [kind |-> "timer", val |-> "none"]
           ELSE sel[j]]
    /\ UNCHANGED <<gateVars, shutVars, ret, timeout, startTime, done, panicChan,
                   timerAt, outcome, retElapsed, gpc, hres, hInTime, shutIn,
                   nSent, nOutcome>>

\* ---- the system -----------------------------------------------------------
Next ==
    \/ \E p \in ShutdownCallers : ShutdownCAS(p)
    \/ \E p \in ShutdownCallers : ShutdownOnceDo(p)
    \/ \E p \in ShutdownCallers : ShutdownCloseStop(p)
    \/ Queue
    \/ Run
    \/ BeforeRun
    \/ AfterRun
    \/ Capacity
    \/ Usage
    \/ \E j \in Jobs, T \in Timeouts : HandleStart(j, T)
    \/ \E j \in Jobs : HandlerReturn(j)
    \/ \E j \in Jobs : HandlerPanic(j)
    \/ \E j \in Jobs : EnterOuter(j)
    \/ \E j \in Jobs : OuterBranch(j)
    \/ \E j \in Jobs : EnterInner(j)
    \/ \E j \in Jobs : InnerBranch(j)
    \/ Tick

Spec == Init /\ [][Next]_vars

\* the supervisor's own steps of handle j: the Go scheduler runs a goroutine
\* that is runnable
HandleStep(j) == EnterOuter(j) \/ OuterBranch(j) \/ EnterInner(j) \/ InnerBranch(j)

\* the worker with a scheduler that runs every runnable handle and a clock
\* whose timers fire; nothing is assumed of the handler, which may never end
FairSpec ==
    /\ Spec
    /\ WF_vars(Tick)
    /\ \A j \in Jobs : WF_vars(HandleStep(j))

\* the worker with one more handle in flight: the framework calls handle from
\* several goroutines at once
NextConcurrent ==
    \/ \E p \in ShutdownCallers : ShutdownCAS(p)
    \/ \E p \in ShutdownCallers : ShutdownOnceDo(p)
    \/ \E p \in ShutdownCallers : ShutdownCloseStop(p)
    \/ Queue
    \/ Run
    \/ BeforeRun
    \/ AfterRun
    \/ Capacity
    \/ Usage
    \/ \E j \in Handles, T \in Timeouts : HandleStart(j, T)
    \/ \E j \in Handles : HandlerReturn(j)
    \/ \E j \in Handles : HandlerPanic(j)
    \/ \E j \in Handles : EnterOuter(j)
    \/ \E j \in Handles : OuterBranch(j)
    \/ \E j \in Handles : EnterInner(j)
    \/ \E j \in Handles : InnerBranch(j)
    \/ Tick

SpecConcurrent == Init /\ [][NextConcurrent]_vars

\* ---- the claims ------------------------------------------------------------
ShutdownReturnedNil == \E p \in ShutdownCallers : sres[p] = Nil

NilReturns == {p \in ShutdownCallers : sres[p] = Nil}

\* C1: whatever the number and interleaving of the Shutdown calls, at most one
\* of them returns nil, and once all have returned exactly one has (the others
\* returned ErrQueueShutdown); rdb.Close() is called at most once and the stop
\* channel is closed at most once, both exactly once when a call has returned nil.
C1_ShutdownOnce ==
    /\ Cardinality(NilReturns) <= 1
    /\ \A p \in ShutdownCallers :
         spc[p] = "returned" => sres[p] \in {Nil, ErrQueueShutdown}
    /\ (\A p \in ShutdownCallers : spc[p] = "returned") => Cardinality(NilReturns) = 1
    /\ rdbCloseCalls <= 1
    /\ stopCloseCalls <= 1
    /\ ShutdownReturnedNil => rdbCloseCalls = 1 /\ stopCloseCalls = 1

\* two Shutdown calls have returned, one nil and one ErrQueueShutdown
C1_Witness ==
    /\ \A p \in ShutdownCallers : spc[p] = "returned"
    /\ \E p \in ShutdownCallers : sres[p] = ErrQueueShutdown
    /\ ShutdownReturnedNil
    /\ rdbCloseCalls = 1

\* C2: a Queue call made once a Shutdown call has returned nil returns
\* ErrQueueShutdown, and it changes nothing but its own return value: no handle
\* is started, and stopFlag, the stop channel and the client are as they were.
C2_QueueAfterShutdown ==
    [][(ShutdownReturnedNil /\ Queue) =>
          /\ ret' = ErrorResult(ErrQueueShutdown)
          /\ UNCHANGED <<gateVars, shutVars, now, jobVars>>]_vars

\* Queue has returned ErrQueueShutdown after a Shutdown call returned nil
C2_Witness ==
    /\ ShutdownReturnedNil
    /\ ret = ErrorResult(ErrQueueShutdown)
    /\ \A j \in Jobs : hpc[j] = "idle"

\* C3: Run can always be taken (it never blocks); it returns ErrQueueShutdown
\* exactly when the stop channel is closed at that moment, nil while the channel
\* is open, and it changes nothing but its own return value.
C3_RunPollsStop ==
    /\ [](ENABLED Run)
    /\ [][Run =>
            /\ (ret' = ErrorResult(ErrQueueShutdown)) <=> (stop = "closed")
            /\ stop = "open" => ret' = ErrorResult(Nil)
            /\ UNCHANGED <<gateVars, shutVars, now, jobVars>>]_vars

\* Run has returned nil although stopFlag is already set: the channel is still open
C3_Witness ==
    /\ stopFlag = 1
    /\ stop = "open"
    /\ ret = ErrorResult(Nil)
    /\ \E p \in ShutdownCallers : spc[p] = "closeStop"

\* C4: when the handler returned e before the job's timeout had elapsed and the
\* stop channel was never closed, handle returns exactly e, and so not
\* context.DeadlineExceeded.
C4_HandlerResultInTime ==
    \A j \in Jobs :
        (hpc[j] = "returned" /\ stop = "open" /\ hres[j].kind = "return" /\ hInTime[j])
            => /\ outcome[j] = hres[j]
               /\ outcome[j] # Returned(DeadlineExceeded)

\* a handler returned an error at time 1 of a timeout of 2, and handle returned it
C4_Witness ==
    \E j \in Jobs :
        /\ hpc[j] = "returned"
        /\ stop = "open"
        /\ timeout[j] = 2
        /\ retElapsed[j] = 1
        /\ hres[j] = Returned("err1")
        /\ hInTime[j]
        /\ outcome[j] = Returned("err1")

\* C5: when the handler has not returned and the stop channel was never closed,
\* handle stays blocked only while the deadline has not expired, and it returns
\* context.DeadlineExceeded exactly when the timeout has elapsed, with the job's
\* context done.
C5_Timeout ==
    \A j \in Jobs :
        /\ (hpc[j] = "returned" /\ stop = "open" /\ hres[j] = None)
             => /\ outcome[j] = Returned(DeadlineExceeded)
                /\ retElapsed[j] = timeout[j]
                /\ ctxErr[j] # Nil
        /\ BlockedOuter(j) => now - startTime[j] < timeout[j]

\* handle timed out at time 2 while the handler was still running
C5_Witness ==
    \E j \in Jobs :
        /\ hpc[j] = "returned"
        /\ stop = "open"
        /\ gpc[j] = "running"
        /\ timeout[j] = 2
        /\ retElapsed[j] = 2
        /\ outcome[j] = Returned(DeadlineExceeded)
        /\ ctxErr[j] = DeadlineExceeded

\* C6: for a job in flight when the stop channel is closed before its timeout
\* has elapsed: if the handler ends (returns or panics) before the timeout has
\* elapsed since the start of handle, handle gives the handler's own result;
\* otherwise handle returns context.DeadlineExceeded, when exactly the timeout
\* has elapsed since the start of handle.
C6_ShutdownGrace ==
    \A j \in Jobs :
        (hpc[j] = "returned" /\ shutIn[j])
            => IF hres[j] # None /\ hInTime[j]
                 THEN outcome[j] = hres[j]
                 ELSE /\ outcome[j] = Returned(DeadlineExceeded)
                      /\ retElapsed[j] = timeout[j]

\* the stop channel was closed at time 1 of a timeout of 2, the handler did not
\* end, and handle returned DeadlineExceeded at time 2
C6_Witness ==
    \E j \in Jobs :
        /\ hpc[j] = "returned"
        /\ shutIn[j]
        /\ gpc[j] = "running"
        /\ ctxErr[j] = Canceled
        /\ timeout[j] = 2
        /\ retElapsed[j] = 2
        /\ outcome[j] = Returned(DeadlineExceeded)

\* the handle invocations in the select of the shutdown branch
InGrace(j) == hpc[j] \in {"inner", "innerWait", "innerGo"}

\* C7: handle never runs longer than job.Timeout: while it is in flight and
\* when it returns, the time since its start is at most the timeout, and the
\* timer of the shutdown branch is set to the end of the original timeout.
C7_LifetimeBounded ==
    \A j \in Jobs :
        /\ hpc[j] = "returned" => retElapsed[j] <= timeout[j]
        /\ hpc[j] \notin {"idle", "returned"} => now - startTime[j] <= timeout[j]
        /\ InGrace(j) => timerAt[j] <= startTime[j] + timeout[j]

\* a handle that saw the shutdown at time 1 of a timeout of 2 waits for one more unit
C7_Witness ==
    \E j \in Jobs :
        /\ BlockedInner(j)
        /\ timeout[j] = 2
        /\ now - startTime[j] = 1
        /\ timerAt[j] = now + 1

\* C8: whenever the handler of a job (with a positive timeout) has panicked with
\* p and handle has returned, what handle gave its caller is the panic p.
C8_PanicNeverAbsorbed ==
    \A j \in Jobs :
        (hpc[j] = "returned" /\ hres[j].kind = "panic" /\ timeout[j] > 0)
            => outcome[j] = hres[j]

\* C9: handle reports one outcome, once, and it is the handler's result, its
\* panic, or context.DeadlineExceeded; the goroutine sends at most one message
\* over done and panicChan together.
C9_OneOutcome ==
    \A j \in Jobs :
        /\ nSent[j] <= 1
        /\ Len(done[j]) + Len(panicChan[j]) <= 1
        /\ nOutcome[j] <= 1
        /\ (hpc[j] = "returned") <=> (nOutcome[j] = 1)
        /\ hpc[j] # "returned" => outcome[j] = None
        /\ hpc[j] = "returned" =>
              /\ outcome[j] # None
              /\ outcome[j] \in {hres[j], Returned(DeadlineExceeded)}

\* handle has re-raised the handler's panic: one message, one outcome
C9_Witness ==
    \E j \in Jobs :
        /\ hpc[j] = "returned"
        /\ nOutcome[j] = 1
        /\ nSent[j] = 1
        /\ outcome[j] = Panicked("p1")

\* C10: in every step of every operation, stopFlag changes only from 0 to 1,
\* and a closed stop channel stays closed.
C10_ShutdownMonotonic ==
    [][/\ stopFlag' # stopFlag => (stopFlag = 0 /\ stopFlag' = 1)
       /\ stop = "closed" => stop' = "closed"
       /\ stopFlag = 1 => stopFlag' = 1]_vars

\* after the shutdown, a second Shutdown call, a handle and a Capacity call have run
C10_Witness ==
    /\ stopFlag = 1
    /\ stop = "closed"
    /\ \A p \in ShutdownCallers : spc[p] = "returned"
    /\ \E j \in Jobs : hpc[j] = "returned"
    /\ ret = IntResult(0)

\* C11: under a scheduler that runs the supervisor and a clock whose timers
\* fire, every handle that was started returns to its caller, whatever the
\* handler does (it may never end) and whether or not the stop channel is
\* closed; handle returns without the handler goroutine having ended.
C11_HandleReturns ==
    \A j \in Jobs : (hpc[j] # "idle") ~> (hpc[j] = "returned")

\* handle returned from its shutdown branch at the end of the timeout while the
\* handler, which ignored the cancellation, is still running
C11_Witness ==
    \E j \in Jobs :
        /\ hpc[j] = "returned"
        /\ gpc[j] = "running"
        /\ hres[j] = None
        /\ stop = "closed"
        /\ ctxErr[j] = Canceled
        /\ retElapsed[j] = timeout[j]
        /\ timeout[j] = 1

\* handle j is about to enter its outer select with the stop channel closed and
\* the handler's result waiting in done, before the deadline
BothReady(j) == hpc[j] = "outer" /\ OuterReady(j) = {"stop", "done"}

\* C12 as stated: whenever the outer select of handle resolves with the stop
\* channel closed and the handler's result ready, it takes the shutdown branch.
C12_ShutdownPrecedence ==
    [][\A j \in Jobs :
          (/\ hpc[j] = "outer"
           /\ {"stop", "done"} \subseteq OuterReady(j)
           /\ hpc'[j] # hpc[j]) => hpc'[j] = "inner"]_vars

\* C12 as amended: with the stop channel closed and the handler's result both
\* ready before the deadline, the select may take either branch (both are
\* possible); the handler-finished branch returns the result at once, the
\* shutdown branch cancels the context and its grace wait then returns the same
\* result from done.
C12_EitherBranch ==
    /\ [](\A j \in Jobs : BothReady(j) =>
              /\ ENABLED (EnterOuter(j) /\ hpc'[j] = "inner")
              /\ ENABLED (EnterOuter(j) /\ hpc'[j] = "returned"))
    /\ [][\A j \in Jobs :
            /\ (BothReady(j) /\ hpc'[j] # hpc[j]) =>
                  \/ /\ hpc'[j] = "inner"
                     /\ done'[j] = done[j]
                     /\ ctxErr'[j] = Canceled
                  \/ /\ hpc'[j] = "returned"
                     /\ outcome'[j] = Returned(Head(done[j]))
            /\ (/\ hpc[j] = "inner"
                /\ done[j] # <<>>
                /\ now < timerAt[j]
                /\ hpc'[j] # hpc[j]) =>
                  /\ hpc'[j] = "returned"
                  /\ outcome'[j] = Returned(Head(done[j]))]_vars

\* handle took the shutdown branch at the very start of a timeout of 2 although
\* the handler's error was already waiting in done
C12_Witness ==
    \E j \in Jobs :
        /\ hpc[j] = "inner"
        /\ done[j] = <<"err1">>
        /\ gpc[j] = "exited"
        /\ ctxErr[j] = Canceled
        /\ timeout[j] = 2
        /\ now = startTime[j]
        /\ timerAt[j] = now + 2

\* a Shutdown call has swapped stopFlag and has not yet finished close(s.stop)
ShutdownInProgress == \E p \in ShutdownCallers : spc[p] \in {"once", "closeStop"}

\* C13 as stated: in every reachable state Queue returns ErrQueueShutdown if
\* and only if Run returns ErrQueueShutdown.
C13_GateAgrees ==
    (QueueResult(stopFlag) = ErrQueueShutdown) <=> (RunResult(stop) = ErrQueueShutdown)

\* C13 as amended: Queue decides from stopFlag and Run from the stop channel.
\* Whenever Run returns ErrQueueShutdown so does Queue; the two differ exactly
\* while the Shutdown call that swapped stopFlag has not yet closed the stop
\* channel, and there Queue rejects while Run still accepts.
C13_GateDuringShutdown ==
    /\ RunResult(stop) = ErrQueueShutdown => QueueResult(stopFlag) = ErrQueueShutdown
    /\ (QueueResult(stopFlag) # RunResult(stop)) <=> ShutdownInProgress
    /\ ShutdownInProgress =>
          /\ QueueResult(stopFlag) = ErrQueueShutdown
          /\ RunResult(stop) = Nil

\* a Queue call was rejected while Shutdown was about to close the stop
\* channel, where Run still accepts
C13_Witness ==
    /\ \E p \in ShutdownCallers : spc[p] = "closeStop"
    /\ ret = ErrorResult(ErrQueueShutdown)
    /\ RunResult(stop) = Nil
    /\ rdbCloseCalls = 1

\* C14: from the moment handle has taken its shutdown branch, before the grace
\* wait begins and throughout it, the handler's context is done, cancelled and
\* (for a job with a positive timeout) not deadline-expired, and the grace timer
\* ends when the original timeout has elapsed since the start of handle: the
\* wait is the timeout less the time already spent.
C14_CancelThenGrace ==
    \A j \in Jobs :
        InGrace(j) =>
            /\ ctxErr[j] # Nil
            /\ timeout[j] > 0 => ctxErr[j] = Canceled
            /\ timerAt[j] = startTime[j] + timeout[j]
            /\ timerAt[j] - now = timeout[j] - (now - startTime[j])

\* handle has just taken the shutdown branch one unit into a timeout of 2: the
\* context is cancelled, the handler still runs, the grace wait has one unit left
C14_Witness ==
    \E j \in Jobs :
        /\ hpc[j] = "inner"
        /\ gpc[j] = "running"
        /\ hres[j] = None
        /\ ctxErr[j] = Canceled
        /\ timeout[j] = 2
        /\ now - startTime[j] = 1
        /\ timerAt[j] - now = 1

\* handle j takes the stop case of its outer select in this step
TakesStop(j) == hpc[j] \in {"outer", "outerGo"} /\ hpc'[j] = "inner"

\* C15: the close of the stop channel releases every handle blocked in its
\* outer select, each woken with the stop case; while the channel is closed no
\* handle is blocked in the outer select; a handle taking the stop case or a
\* Run call observing the closed channel leaves it closed, and every Run call
\* made while it is closed returns ErrQueueShutdown.
C15_StopBroadcast ==
    /\ [](stop = "closed" => \A j \in Handles : ~BlockedOuter(j))
    /\ [][/\ (stop = "open" /\ stop' = "closed") =>
                (\A j \in Handles :
                    BlockedOuter(j) => (hpc'[j] = "outerGo" /\ sel'[j].kind = "stop"))
          /\ (\E j \in Handles : TakesStop(j)) =>
                (/\ stop = "closed"
                 /\ stop' = "closed"
                 /\ \A i \in Handles : hpc'[i] = "outerGo" => sel'[i] = sel[i])
          /\ (Run /\ stop = "closed") =>
                (/\ ret' = ErrorResult(ErrQueueShutdown)
                 /\ stop' = "closed"
                 /\ hpc' = hpc
                 /\ sel' = sel)]_vars

\* two handles were blocked when the stop channel was closed: the first has
\* taken its shutdown branch and waits in it, the second, released by the same
\* close, is about to take its own
C15_Witness ==
    /\ stop = "closed"
    /\ hpc[1] = "innerWait"
    /\ shutIn[1]
    /\ hpc[2] = "outerGo"
    /\ sel[2].kind = "stop"
    /\ shutIn[2]

\* a step of handle invocation j: its start, a step of its selects, or the end
\* of its handler goroutine
JobStep(j) ==
    \/ \E T \in Timeouts : HandleStart(j, T)
    \/ HandlerReturn(j)
    \/ HandlerPanic(j)
    \/ HandleStep(j)

\* what belongs to handle invocation j: its locals, its context, its channels
JobState(j) ==
    <<hpc[j], timeout[j], startTime[j], ctxErr[j], done[j], panicChan[j], sel[j],
      timerAt[j], outcome[j], retElapsed[j], gpc[j], hres[j], hInTime[j],
      shutIn[j], nSent[j], nOutcome[j]>>

\* C16: no step of a handle invocation or of its handler goroutine, whatever
\* the outcome, changes stopFlag, the stop channel, the once, the client or a
\* Shutdown call, and none changes anything that belongs to another handle
\* invocation: its context, its channels, its position or its outcome.
C16_HandleFrame ==
    [][\A j \in Handles :
          JobStep(j) =>
              /\ UNCHANGED <<gateVars, shutVars>>
              /\ \A i \in Handles \ {j} : JobState(i)' = JobState(i)]_vars

\* two jobs started together and nobody called Shutdown: the first crashed at
\* once, the second returned its handler's error one unit later
C16_Witness ==
    /\ stopFlag = 0 /\ stop = "open" /\ rdbCloseCalls = 0
    /\ startTime[1] = startTime[2]
    /\ hpc[1] = "returned" /\ outcome[1] = Panicked("p1") /\ retElapsed[1] = 0
    /\ hpc[2] = "returned" /\ outcome[2] = Returned("err1") /\ retElapsed[2] = 1
    /\ hres[2] = Returned("err1")
    /\ ctxErr[2] = Canceled

\* C17: while the handler goroutine runs, both of its channels are empty and
\* its send can complete, whether runFunc returns or panics and whether handle
\* is still selecting or has returned; each channel holds at most one value, the
\* goroutine sends one message, and it has exited as soon as runFunc has ended.
C17_SendNeverBlocks ==
    \A j \in Jobs :
        /\ Len(done[j]) <= 1
        /\ Len(panicChan[j]) <= 1
        /\ gpc[j] = "running" =>
              /\ done[j] = <<>>
              /\ panicChan[j] = <<>>
              /\ ENABLED HandlerReturn(j)
              /\ ENABLED HandlerPanic(j)
        /\ (gpc[j] = "exited") <=> (hres[j] # None)
        /\ gpc[j] = "exited" => nSent[j] = 1

\* handle timed out and returned; the handler returned its error afterwards,
\* the send went into the buffer of done and the goroutine exited
C17_Witness ==
    \E j \in Jobs :
        /\ hpc[j] = "returned"
        /\ outcome[j] = Returned(DeadlineExceeded)
        /\ gpc[j] = "exited"
        /\ ~hInTime[j]
        /\ hres[j] = Returned("err1")
        /\ done[j] = <<"err1">>
        /\ timeout[j] = 1

\* C18: a job whose timeout is zero is rejected and never executed: handle
\* does not start its handler goroutine, and what it gives back is an error.
C18_ZeroTimeoutRejected ==
    \A j \in Jobs :
        (hpc[j] # "idle" /\ timeout[j] = 0) =>
            /\ gpc[j] = "none"
            /\ hres[j] = None
            /\ hpc[j] = "returned" => outcome[j] \notin {Returned(Nil), hres[j]}

\* C19 as stated: once a Shutdown call has returned, with nil or with
\* ErrQueueShutdown, the stop channel and the client are closed, Run returns
\* ErrQueueShutdown and no handle is left blocked in its outer select.
C19_AnyReturnMeansComplete ==
    \A p \in ShutdownCallers :
        spc[p] = "returned" =>
            /\ stop = "closed"
            /\ rdbCloseCalls = 1
            /\ RunResult(stop) = ErrQueueShutdown
            /\ \A j \in Jobs : ~BlockedOuter(j)

\* C19 as amended: once a Shutdown call has returned nil, the stop channel and
\* the client are closed, Run returns ErrQueueShutdown and no handle is left
\* blocked in its outer select; a call that returned ErrQueueShutdown shows
\* only that stopFlag is set, so that Queue rejects.
C19_NilReturnMeansComplete ==
    \A p \in ShutdownCallers :
        /\ sres[p] = Nil =>
              /\ stop = "closed"
              /\ rdbCloseCalls = 1
              /\ RunResult(stop) = ErrQueueShutdown
              /\ \A j \in Jobs : ~BlockedOuter(j)
        /\ sres[p] = ErrQueueShutdown =>
              /\ stopFlag = 1
              /\ QueueResult(stopFlag) = ErrQueueShutdown
              /\ \E q \in ShutdownCallers \ {p} : spc[q] # "idle"

\* one Shutdown call has returned nil and the other ErrQueueShutdown, a call
\* made afterwards was rejected, and a job in flight is in its shutdown branch
C19_Witness ==
    /\ \E p, q \in ShutdownCallers : sres[p] = Nil /\ sres[q] = ErrQueueShutdown
    /\ ret = ErrorResult(ErrQueueShutdown)
    /\ \E j \in Jobs : InGrace(j) /\ shutIn[j]

\* C20: whenever the stop channel is closed, stopFlag is 1 and the client's
\* Close has been called; a handle that is in its shutdown branch, or was woken
\* for it, finds stopFlag set; and a Queue call made while the channel is
\* closed or a handle is in its shutdown branch returns ErrQueueShutdown.
C20_ClosedImpliesFlag ==
    /\ [](stop = "closed" => (stopFlag = 1 /\ rdbCloseCalls = 1))
    /\ [](\A j \in Jobs : (InGrace(j) \/ sel[j].kind = "stop") =>
              (stopFlag = 1 /\ rdbCloseCalls = 1))
    /\ [][(Queue /\ (stop = "closed" \/ \E j \in Jobs : InGrace(j))) =>
              ret' = ErrorResult(ErrQueueShutdown)]_vars

\* after the only Shutdown call, a handle woken in its shutdown branch by its
\* handler, and a call rejected with ErrQueueShutdown
C20_Witness ==
    /\ stop = "closed"
    /\ stopFlag = 1
    /\ rdbCloseCalls = 1
    /\ spc[2] = "idle"
    /\ ret = ErrorResult(ErrQueueShutdown)
    /\ \E j \in Jobs : hpc[j] = "innerGo" /\ sel[j].kind = "done"

====
